---- MODULE Spec2Model ----
(***************************************************************************)
(* Model of the repair orchestrator of backend/app/services:               *)
(* RepairBrain.process_request and RepairBrain.process_request_streaming   *)
(* (reasoning_brain.py), the guide client they call (ifixit_client.py) and *)
(* the exploded-view asset task they launch (trellis_service.py).          *)
(*                                                                         *)
(* Python values are modelled by records of one shape per sort, so that a  *)
(* JSON value of the wrong kind (null where a string is expected, an       *)
(* object where a list is expected) is a value the model can hold:         *)
(*   name    [k, w]       k in {"str","null","num"}, w the words of a str  *)
(*   value   [k, items, n] k in {"list","obj","null"}; n is its len()      *)
(*   step    [step, instruction, warning]                                  *)
(* Collaborator responses (the generative model, the guide repository) are *)
(* chosen when first asked for and remembered in mock, so that a second    *)
(* run of the orchestrator receives the same responses.                    *)
(***************************************************************************)
EXTENDS Integers, Sequences, FiniteSets, TLC

VARIABLES model, imageOk, hint, mock, mode, pc, state, guides, polished_steps,
          task, result, events, exc, frames, probe

vars == <<model, imageOk, hint, mock, mode, pc, state, guides, polished_steps,
          task, result, events, exc, frames, probe>>

(* ------------------------------ bounds -------------------------------- *)

\* Longest step list a collaborator (guide detail, generative model, polisher) returns.
MaxSteps == 2

\* Most guides the repository lists for a device.
MaxGuides == 2

\* Most text lines of a raw guide step.
MaxLines == 3

\* How far above the ceiling the step lists given to polish_all_steps go.
MaxOver == 1

\* polish_all_steps skips lists longer than this.
PolishCeiling == 30

\* The two runs of the orchestrator.
Sessions == {1, 2}

(* --------------------------- python values ---------------------------- *)

Str(words) == [k |-> "str", w |-> words]
NoneName == [k |-> "null", w |-> <<>>]
NumName == [k |-> "num", w |-> <<>>]

ListV(items) == [k |-> "list", items |-> items, n |-> Len(items)]
ObjV(n) == [k |-> "obj", items |-> <<>>, n |-> n]
NullV == [k |-> "null", items |-> <<>>, n |-> 0]

\* len(v) raises TypeError unless v is a list, a dict or a string.
HasLen(v) == v.k \in {"list", "obj", "str"}
\* bool(v)
Truthy(v) == IF HasLen(v) THEN v.n > 0 ELSE v.k = "num"
\* bool(name)
NameTruthy(t) == IF t.k = "str" THEN t.w # <<>> ELSE t.k = "num"
\* A plausible slip: comparing with the one sentinel instead of searching for the word.
EqualsUnknownDevice(t) == t.w = <<"Unknown", "Device">>

\* "Unknown" in t, for a string t
ContainsUnknown(t) == \E i \in 1..Len(t.w) : t.w[i] = "Unknown"

NoWarning == "None"

\* A list of n steps numbered base+1 .. base+n.
MkSteps(n, base, text, warn) ==
    ListV([i \in 1..n |-> [step |-> base + i, instruction |-> <<text>>, warning |-> warn]])

(* ----------------------------- log lines ------------------------------ *)

Line(msg) == [msg |-> msg, t |-> NoneName, n |-> 0]
LineT(msg, t) == [msg |-> msg, t |-> t, n |-> 0]
LineN(msg, n) == [msg |-> msg, t |-> NoneName, n |-> n]

\* A session context c = [st, ev]: the RepairState dict and the events yielded so far.

\* A plausible slip: the message is put in front of the log.
_log_in_front(c, line) == [c EXCEPT !.st.reasoning_log = <<line>> \o @]

\* RepairBrain._log: append the message to the session's reasoning_log.
_log(c, line) == [c EXCEPT !.st.reasoning_log = Append(@, line)]

NoResult == [source |-> "none"]

LogEvent(line) == [type |-> "log", line |-> line, res |-> NoResult]
ResultEvent(res) == [type |-> "result", line |-> Line(""), res |-> res]

\* stream_log: append the message to reasoning_log and hand back a log event,
\* which process_request_streaming yields at once.
stream_log(c, line) ==
    [c EXCEPT !.st.reasoning_log = Append(@, line), !.ev = Append(@, LogEvent(line))]

\* The logging call of the mode the session runs in.
say(m, c, line) == IF m = "streaming" THEN stream_log(c, line) ELSE _log(c, line)

(* ----------------------- collaborator responses ----------------------- *)

Unset == [k |-> "unset"]
Missing == [k |-> "missing", w |-> <<>>]
MissingV == [k |-> "missing", items |-> <<>>, n |-> 0]

\* What the vision-language model answers to the scene prompt: the call raises,
\* the text is not JSON, the JSON root is not an object, or an object whose
\* target_object is a string, null, a number or absent.
SceneTargets ==
    {Str(<<"Toaster">>), Str(<<>>), Str(<<"Unknown", "Gadget">>), NoneName, NumName, Missing}
SceneResponses ==
    {[k |-> x, target |-> Missing] : x \in {"raise", "badjson", "nonobject"}}
    \cup {[k |-> "object", target |-> t] : t \in SceneTargets}

\* HTTP exchanges with the guide repository: a transport error, or a status and a body.
Transport == [k |-> "transport", status |-> 0, n |-> 0, body |-> <<>>]
Http(status, n, body) == [k |-> "http", status |-> status, n |-> n, body |-> body]

SearchResponses == {Transport, Http(500, 0, <<>>), Http(200, 0, <<>>), Http(200, 1, <<>>)}

\* Guide lists: the first guide with or without a guideid.
GuideList(n, id) == [i \in 1..n |-> [guideid |-> IF i = 1 THEN id ELSE 100 + i]]
GuideLists == {<<>>, GuideList(1, 0)} \cup {GuideList(n, 7) : n \in 1..MaxGuides}
GuidesResponses ==
    {Transport, Http(500, 0, <<>>)} \cup {Http(200, Len(g), g) : g \in GuideLists}

\* Raw guide steps: text lines and a title.
RawWithText == [lines |-> << <<"Unscrew">> >>, title |-> <<"Open case">>, has_title |-> TRUE]
RawTitleOnly == [lines |-> << <<>> >>, title |-> <<"Open case">>, has_title |-> TRUE]
RawStepLists ==
    {<<>>} \cup {[i \in 1..n |-> r] : n \in 1..MaxSteps, r \in {RawWithText, RawTitleOnly}}
DetailsResponses ==
    {Transport, Http(500, 0, <<>>)} \cup {Http(200, Len(r), r) : r \in RawStepLists}

\* What the model answers to the step-generation prompt.
GenStepValues ==
    {MissingV, NullV, ObjV(1), ListV(<<>>)}
    \cup {MkSteps(n, base, "generated", "Be careful") : n \in 1..MaxSteps, base \in {0, 1}}
GenResponses ==
    {[k |-> x, steps |-> MissingV, safety |-> <<>>] : x \in {"raise", "badjson"}}
    \cup {[k |-> "object", steps |-> v, safety |-> <<"Wear safety glasses">>] : v \in GenStepValues}
    \cup {[k |-> "object", steps |-> MkSteps(1, 0, "generated", "Be careful"), safety |-> <<>>]}

\* What the model answers to the polishing prompt.
PolishValues ==
    {NullV, ListV(<<>>)}
    \cup {ObjV(n) : n \in 1..MaxSteps}
    \cup {MkSteps(n, 0, "polished", NoWarning) : n \in 1..MaxSteps}
    \cup {MkSteps(n, 1, "polished", "Mind the clips") : n \in 1..MaxSteps}
PolishResponses ==
    {[k |-> x, v |-> NullV] : x \in {"raise", "badjson"}}
    \cup {[k |-> "json", v |-> v] : v \in PolishValues}

(* --------------------------- guide client ----------------------------- *)

\* iFixitClient.search_device: the best match, or none; a transport error is not caught.
search_device(resp) ==
    IF resp.k = "transport" THEN [k |-> "raise"]
    ELSE IF resp.status = 200 /\ resp.n > 0 THEN [k |-> "device"]
    ELSE [k |-> "none"]

\* iFixitClient.get_guides: the guides of a category, or the empty list.
get_guides(resp) ==
    IF resp.k = "transport" THEN [k |-> "raise", guides |-> <<>>]
    ELSE IF resp.status = 200 THEN [k |-> "ok", guides |-> resp.body]
    ELSE [k |-> "ok", guides |-> <<>>]

\* iFixitClient.get_guide_details: the guide's record, or the empty record.
get_guide_details(resp) ==
    IF resp.k = "transport" THEN [k |-> "raise", steps |-> <<>>]
    ELSE IF resp.status = 200 THEN [k |-> "ok", steps |-> resp.body]
    ELSE [k |-> "ok", steps |-> <<>>]

(* ------------------------- pure parts of the nodes -------------------- *)

RECURSIVE JoinFrom(_, _)
\* " ".join(texts[i..])
JoinFrom(texts, i) ==
    IF i > Len(texts) THEN <<>>
    ELSE IF i = Len(texts) THEN texts[i]
    ELSE texts[i] \o <<" ">> \o JoinFrom(texts, i + 1)

\* " ".join(texts)
Join(texts) == JoinFrom(texts, 1)

\* A plausible slip: the mapped step is given a step-level warning.
MapRawStepWarns(idx, raw) ==
    [step |-> idx + 1,
     instruction |-> IF Join(raw.lines) # <<>> THEN Join(raw.lines) ELSE raw.title,
     warning |-> "See the official guide."]

\* The Step record ifixit_check_node builds from the raw guide step at index idx (0-based).
MapRawStep(idx, raw) ==
    LET instruction_text == Join(raw.lines)
        title == IF raw.has_title THEN raw.title ELSE <<"Step">>
    IN [step |-> idx + 1,
        instruction |-> IF instruction_text # <<>> THEN instruction_text ELSE title,
        warning |-> NoWarning]

\* verified_steps of ifixit_check_node.
MapRawSteps(raw_steps) == ListV([i \in 1..Len(raw_steps) |-> MapRawStep(i - 1, raw_steps[i])])

\* A plausible slip: a fallback that forgets the second step and the second warning.
_mock_one_step ==
    [repair_steps |->
        ListV(<< [step |-> 1,
                  instruction |-> <<"Remove the 4 visible Phillips screws on the back panel.">>,
                  warning |-> NoWarning] >>),
     safety_warnings |-> <<"Unplug device before opening">>]

\* RepairBrain._mock_generative_steps: the canned steps and safety warnings.
_mock_generative_steps ==
    [repair_steps |->
        ListV(<< [step |-> 1,
                  instruction |-> <<"Remove the 4 visible Phillips screws on the back panel.">>,
                  warning |-> NoWarning],
                 [step |-> 2,
                  instruction |-> <<"Gently pry the seam using a plastic pick.">>,
                  warning |-> "Clips may break if forced."] >>),
     safety_warnings |-> <<"Unplug device before opening", "Capacitor discharge risk">>]

\* A plausible slip: a list of exactly the ceiling's length is skipped too.
PolishAsksModelStrict(steps) ==
    /\ model
    /\ Truthy(steps)
    /\ ~(steps.n >= PolishCeiling)
    /\ steps.k = "list"

\* polish_all_steps reaches the model call: the model is there, the list is not
\* empty and not above the ceiling, and every element is a dict.
PolishAsksModel(steps) ==
    /\ model
    /\ Truthy(steps)
    /\ ~(steps.n > PolishCeiling)
    /\ steps.k = "list"

\* RepairBrain.polish_all_steps, given the model's answer resp to the polishing prompt.
polish_all_steps(steps, resp) ==
    IF ~PolishAsksModel(steps) THEN steps
    ELSE IF resp.k # "json" THEN steps
    ELSE IF ~HasLen(resp.v) THEN steps
    ELSE IF resp.v.n # steps.n THEN steps
    ELSE resp.v

(* ----------------------------- asset task ----------------------------- *)

IllustrationOutcomes == {"raise", "no_image", "image"}
MeshOutcomes == {"no_key", "encode_raises", "subscribe_raises", "parse_raises", "no_mesh", "url"}

\* _generate_exploded_view_image_bytes: the illustration's bytes, or none.
_generate_exploded_view_image_bytes(illus) == IF illus = "image" THEN "bytes" ELSE "None"

\* generate_trellis_model_url: the hosted asset URL, none, or an exception
\* (the image preprocessing is outside the try blocks).
generate_trellis_model_url(mesh) ==
    IF mesh = "no_key" THEN "None"
    ELSE IF mesh = "encode_raises" THEN "raise"
    ELSE IF mesh = "subscribe_raises" THEN "None"
    ELSE IF mesh = "parse_raises" THEN "None"
    ELSE IF mesh = "url" THEN "https://fal/model.glb"
    ELSE "None"

\* A plausible slip, the one the docstring describes: with no illustration the
\* original image goes to the mesh stage.
generate_exploded_model_url_fallback(illus, mesh) == generate_trellis_model_url(mesh)

\* The image generate_exploded_model_url hands to generate_trellis_model_url.
MeshInput(illus) ==
    IF _generate_exploded_view_image_bytes(illus) = "None" THEN "nothing" ELSE "exploded"

\* generate_exploded_model_url: illustration, then mesh generation.
generate_exploded_model_url(illus, mesh) ==
    IF _generate_exploded_view_image_bytes(illus) = "None" THEN "None"
    ELSE generate_trellis_model_url(mesh)

NoTask == [st |-> "unborn", device |-> NoneName, out |-> "pending"]

\* A plausible slip: asyncio.to_thread(...) without create_task starts nothing
\* until it is awaited.
create_task_lazy(target) == NoTask

\* asyncio.create_task(asyncio.to_thread(generate_exploded_model_url, image, target)):
\* the task starts running with a copy of the target name.
create_task(target) == [st |-> "running", device |-> target, out |-> "pending"]

(* -------------------------------- nodes ------------------------------- *)

\* The RepairState dict process_request builds.
FreshState ==
    [reasoning_log |-> <<>>,
     detected_objects |-> <<>>,
     target_device |-> Str(<<>>),
     is_verified |-> FALSE,
     repair_steps |-> ListV(<<>>),
     safety_warnings |-> <<>>,
     guides_available |-> <<>>]

UserContext(default) == IF NameTruthy(hint) THEN hint ELSE Str(<<default>>)

\* analyze_scene_node consults the model: the model is configured and the image opens.
SceneAsksModel == model /\ imageOk

\* The except branch of analyze_scene_node, merged into the state.
SceneFailed(c) ==
    [_log(c, Line("Scene Analysis Failed")) EXCEPT
        !.st.target_device = Str(<<"Unknown", "Device">>),
        !.st.detected_objects = <<>>]

\* analyze_scene_node followed by state.update of what it returns.
analyze_scene_node(c, resp) ==
    IF ~model THEN
        [_log(c, Line("AI offline. Defaulting to Unknown Device.")) EXCEPT
            !.st.target_device = Str(<<"Unknown", "Device", "(AI Offline)">>),
            !.st.detected_objects = <<>>]
    ELSE IF ~imageOk THEN SceneFailed(c)
    ELSE
        LET c1 == _log(c, LineT("Analyzing scene. User Context:",
                                UserContext("No specific context provided.")))
        IN  IF resp.k # "object" THEN SceneFailed(c1)
            ELSE
                LET target == IF resp.target = Missing
                              THEN Str(<<"Unknown", "Object">>) ELSE resp.target
                    c2 == _log(c1, Line("Scene Analysis: Saw"))
                    c3 == _log(c2, LineT("Target Lock: Selected", target))
                IN  [c3 EXCEPT !.st.target_device = target,
                               !.st.detected_objects = <<"toaster">>]

\* ifixit_check_node, except branch: {"is_verified": False}.
IfixitFailed(c) == [_log(c, Line("iFixit Check Failed")) EXCEPT !.st.is_verified = FALSE]

\* ifixit_check_node, no device or no guides: {"is_verified": False}.
IfixitNoGuide(c) ==
    [_log(c, Line("No exact verified guide found on iFixit.")) EXCEPT !.st.is_verified = FALSE]

\* A plausible slip: the guides are left out of the returned dict.
IfixitVerifiedNoGuides(c, verified_steps, gs) ==
    [c EXCEPT !.st.is_verified = TRUE, !.st.repair_steps = verified_steps]

\* ifixit_check_node, guides found: is_verified, repair_steps and guides_available.
IfixitVerified(c, verified_steps, gs) ==
    [c EXCEPT !.st.is_verified = TRUE,
              !.st.repair_steps = verified_steps,
              !.st.guides_available = gs]

\* generative_reasoning_node consults the model.
GenAsksModel == model /\ imageOk

\* A plausible slip: the generative node also returns a device name, which
\* state.update then writes over the locked target.
UpdateGenRenames(c, r) ==
    [c EXCEPT !.st.repair_steps = r.repair_steps,
              !.st.safety_warnings = r.safety_warnings,
              !.st.target_device = Str(<<"Generic", "Device">>)]

\* state.update(gen_result)
UpdateGen(c, r) ==
    [c EXCEPT !.st.repair_steps = r.repair_steps, !.st.safety_warnings = r.safety_warnings]

\* generative_reasoning_node followed by state.update of what it returns.
generative_reasoning_node(c, resp) ==
    IF ~model THEN UpdateGen(c, _mock_generative_steps)
    ELSE
        LET c1 == _log(c, LineT("Engaging Generative Repair Logic for", c.st.target_device))
            failed == UpdateGen(_log(c1, Line("Gemini Reasoning Failed")), _mock_generative_steps)
            steps == IF resp.steps = MissingV THEN ListV(<<>>) ELSE resp.steps
        IN  IF ~imageOk \/ resp.k # "object" THEN failed
            ELSE IF ~HasLen(steps) THEN failed
            ELSE UpdateGen(_log(c1, LineN("Generated repair steps via Visual Analysis.", steps.n)),
                           [repair_steps |-> steps, safety_warnings |-> resp.safety])

\* The result record of process_request and of the terminal event.
BuildResult(st, polished, model_url) ==
    IF st.is_verified THEN
        [source |-> "iFixit",
         device |-> st.target_device,
         steps |-> polished,
         safety |-> <<"Follow official guide strictly.">>,
         has_guides_available |-> TRUE,
         guides_available |-> st.guides_available,
         reasoning_log |-> st.reasoning_log,
         model_url |-> model_url]
    ELSE
        [source |-> "AI_Reasoning",
         device |-> st.target_device,
         steps |-> polished,
         safety |-> st.safety_warnings,
         has_guides_available |-> FALSE,
         guides_available |-> <<>>,
         reasoning_log |-> st.reasoning_log,
         model_url |-> model_url]

\* A plausible slip: the result is yielded in the branch and again after it.
DeliverTwice(m, ev, res) ==
    IF m = "streaming" THEN ev \o <<ResultEvent(res), ResultEvent(res)>> ELSE ev

\* yield {"type": "result", "data": result} in the streaming mode; the blocking
\* mode returns the record and yields nothing.
Deliver(m, ev, res) == IF m = "streaming" THEN Append(ev, ResultEvent(res)) ELSE ev

(* ------------------------------- state -------------------------------- *)

Modes == {"blocking", "streaming"}

NoExc == "none"

\* The endpoint's SSE frame for one yielded event: "data: " + json.dumps(event).
Frame(ev) == [sse |-> "data", type |-> ev.type, line |-> ev.line, res |-> ev.res]

\* The frame analyze_stream writes when reading the upload or the generator raises.
ErrorFrame(e) == [sse |-> "data", type |-> "error", line |-> Line(e), res |-> NoResult]

\* A plausible slip: only the latest event is framed.
WriteFramesLatest(fs, old, new) ==
    IF Len(new) > Len(old) THEN Append(fs, Frame(new[Len(new)])) ELSE fs

\* generate(): one frame for each event the generator yielded since the last one.
WriteFrames(fs, old, new) ==
    fs \o [i \in 1..(Len(new) - Len(old)) |-> Frame(new[Len(old) + i])]

\* No pure function under test.
NoProbe == [fn |-> "none"]

InitCommon ==
    /\ model \in BOOLEAN
    /\ imageOk \in BOOLEAN
    /\ hint \in {NoneName, Str(<<"The leg is wobbly.">>)}
    /\ mock = [scene |-> Unset, search |-> Unset, guides |-> Unset,
               details |-> Unset, gen |-> Unset, polish |-> Unset]
    /\ pc = [s \in Sessions |-> "idle"]
    /\ state = [s \in Sessions |-> FreshState]
    /\ guides = [s \in Sessions |-> <<>>]
    /\ polished_steps = [s \in Sessions |-> ListV(<<>>)]
    /\ task = [s \in Sessions |-> NoTask]
    /\ result = [s \in Sessions |-> NoResult]
    /\ events = [s \in Sessions |-> <<>>]
    /\ exc = [s \in Sessions |-> NoExc]
    /\ frames = [s \in Sessions |-> <<>>]

\* One call: the second session never starts.
Init == InitCommon /\ probe = NoProbe /\ mode \in {[s \in Sessions |-> m] : m \in Modes}

\* Two calls: a blocking one, then one in either mode.
InitPair == InitCommon /\ probe = NoProbe /\ mode \in {[s \in Sessions |-> IF s = 1 THEN "blocking" ELSE m] : m \in Modes}

\* A plausible slip: the state dict kept on the shared RepairBrain instance.
ctxShared(s) == [st |-> state[1], ev |-> events[s]]

\* The state dict and the events yielded so far of session s.
ctx(s) == [st |-> state[s], ev |-> events[s]]

Commit(s, c) ==
    /\ state' = [state EXCEPT ![s] = c.st]
    /\ events' = [events EXCEPT ![s] = c.ev]
    /\ frames' = [frames EXCEPT ![s] = WriteFrames(@, events[s], c.ev)]

Goto(s, p) == pc' = [pc EXCEPT ![s] = p]

\* The answers a collaborator may give: the one it gave before, or any.
Answers(key, asks, Choices) ==
    IF asks THEN {x \in Choices : mock[key] \in {Unset, x}} ELSE {Unset}

Remember(key, asks, r) == mock' = IF asks THEN [mock EXCEPT ![key] = r] ELSE mock

(* ------------------------------ actions ------------------------------- *)

\* The call starts: the state dict is built and the session-start line logged.
Start(s) ==
    /\ pc[s] = "idle"
    /\ Commit(s, say(mode[s], [st |-> FreshState, ev |-> <<>>],
                     Line("Starting Repair Analysis Session.")))
    /\ Goto(s, "scene")
    /\ UNCHANGED <<probe, model, imageOk, hint, mock, mode, guides, polished_steps, task, result, exc>>

\* 1. Scene analysis and target lock.
Scene(s) ==
    /\ pc[s] = "scene"
    /\ \E r \in Answers("scene", SceneAsksModel, SceneResponses) :
        LET c1 == IF mode[s] = "streaming"
                  THEN stream_log(ctx(s), LineT("Analyzing scene. User Context:",
                                                UserContext("No context")))
                  ELSE ctx(s)
            c2 == analyze_scene_node(c1, r)
            c3 == IF mode[s] = "streaming" /\ NameTruthy(c2.st.target_device)
                  THEN stream_log(c2, LineT("Target Lock:", c2.st.target_device))
                  ELSE c2
        IN  /\ Remember("scene", SceneAsksModel, r)
            /\ Commit(s, c3)
    /\ Goto(s, "launch")
    /\ UNCHANGED <<probe, model, imageOk, hint, mode, guides, polished_steps, task, result, exc>>

\* The asset task is created once the target is known.
Launch(s) ==
    /\ pc[s] = "launch"
    /\ Commit(s, IF mode[s] = "streaming"
                 THEN stream_log(ctx(s), Line("Launching exploded 3D model generation in parallel..."))
                 ELSE ctx(s))
    /\ task' = [task EXCEPT ![s] = create_task(state[s].target_device)]
    /\ Goto(s, "ifixit")
    /\ UNCHANGED <<probe, model, imageOk, hint, mock, mode, guides, polished_steps, result, exc>>

\* 2. ifixit_check_node up to its first await: the sentinel test on the target.
IfixitEnter(s) ==
    /\ pc[s] = "ifixit"
    /\ LET target == state[s].target_device
           c1 == IF mode[s] = "streaming"
                 THEN stream_log(ctx(s), LineT("Searching iFixit for", target))
                 ELSE ctx(s)
       IN  IF target.k # "str" THEN
               \* "Unknown" in target raises TypeError, outside the try block
               /\ Commit(s, c1)
               /\ Goto(s, "raised")
               /\ exc' = [exc EXCEPT ![s] = "TypeError"]
           ELSE IF ContainsUnknown(target) THEN
               /\ Commit(s, [c1 EXCEPT !.st.is_verified = FALSE])
               /\ Goto(s, "path")
               /\ UNCHANGED exc
           ELSE
               /\ Commit(s, _log(c1, LineT("Searching iFixit for", target)))
               /\ Goto(s, "search")
               /\ UNCHANGED exc
    /\ UNCHANGED <<probe, model, imageOk, hint, mock, mode, guides, polished_steps, task, result>>

\* await self.ifixit.search_device(target)
Search(s) ==
    /\ pc[s] = "search"
    /\ \E r \in Answers("search", TRUE, SearchResponses) :
        LET device == search_device(r)
        IN  /\ Remember("search", TRUE, r)
            /\ IF device.k = "raise" THEN
                   Commit(s, IfixitFailed(ctx(s))) /\ Goto(s, "path")
               ELSE IF device.k = "none" THEN
                   Commit(s, IfixitNoGuide(ctx(s))) /\ Goto(s, "path")
               ELSE
                   Commit(s, _log(ctx(s), Line("iFixit match found"))) /\ Goto(s, "guides")
    /\ UNCHANGED <<probe, model, imageOk, hint, mode, guides, polished_steps, task, result, exc>>

\* await self.ifixit.get_guides(...), up to the await of the guide detail.
GetGuides(s) ==
    /\ pc[s] = "guides"
    /\ \E r \in Answers("guides", TRUE, GuidesResponses) :
        LET got == get_guides(r)
            c1 == _log(ctx(s), LineN("Found verified guides.", Len(got.guides)))
        IN  /\ Remember("guides", TRUE, r)
            /\ IF got.k = "raise" THEN
                   /\ Commit(s, IfixitFailed(ctx(s)))
                   /\ Goto(s, "path")
                   /\ UNCHANGED guides
               ELSE IF got.guides = <<>> THEN
                   /\ Commit(s, IfixitNoGuide(ctx(s)))
                   /\ Goto(s, "path")
                   /\ UNCHANGED guides
               ELSE IF got.guides[1].guideid = 0 THEN
                   \* no guide id: verified_steps stays empty
                   /\ Commit(s, IfixitVerified(c1, ListV(<<>>), got.guides))
                   /\ Goto(s, "path")
                   /\ UNCHANGED guides
               ELSE
                   /\ Commit(s, c1)
                   /\ Goto(s, "details")
                   /\ guides' = [guides EXCEPT ![s] = got.guides]
    /\ UNCHANGED <<probe, model, imageOk, hint, mode, polished_steps, task, result, exc>>

\* await self.ifixit.get_guide_details(guide_id), and the mapping of its steps.
GetGuideDetails(s) ==
    /\ pc[s] = "details"
    /\ \E r \in Answers("details", TRUE, DetailsResponses) :
        LET details == get_guide_details(r)
        IN  /\ Remember("details", TRUE, r)
            /\ IF details.k = "raise"
               THEN Commit(s, IfixitFailed(ctx(s)))
               ELSE Commit(s, IfixitVerified(ctx(s), MapRawSteps(details.steps), guides[s]))
    /\ Goto(s, "path")
    /\ UNCHANGED <<probe, model, imageOk, hint, mode, guides, polished_steps, task, result, exc>>

\* if state.get("is_verified"): Path A, else Path B.
SelectPath(s) ==
    /\ pc[s] = "path"
    /\ IF state[s].is_verified THEN
           /\ Commit(s,
                LET c1 == say(mode[s], ctx(s), Line("Path A Selected: Using Official Guide."))
                IN  IF mode[s] = "streaming"
                    THEN stream_log(c1, LineN("Found verified guides.",
                                              Len(state[s].guides_available)))
                    ELSE c1)
           /\ Goto(s, "polish")
       ELSE
           /\ Commit(s,
                LET c1 == say(mode[s], ctx(s), Line("Path B Selected: Generative AI Mode."))
                IN  IF mode[s] = "streaming"
                    THEN stream_log(c1, Line("Engaging AI reasoning..."))
                    ELSE _log(c1, Line("Engaging Generative Repair Logic while 3D model renders...")))
           /\ Goto(s, "gen")
    /\ UNCHANGED <<probe, model, imageOk, hint, mock, mode, guides, polished_steps, task, result, exc>>

\* 3. Path B: generative_reasoning_node.
Generate(s) ==
    /\ pc[s] = "gen"
    /\ \E r \in Answers("gen", GenAsksModel, GenResponses) :
        LET c1 == IF mode[s] = "streaming"
                  THEN stream_log(ctx(s),
                         Line("Generating repair steps while 3D exploded model renders..."))
                  ELSE ctx(s)
            c2 == generative_reasoning_node(c1, r)
            c3 == IF mode[s] = "streaming"
                  THEN stream_log(c2, LineN("Generated repair steps.", c2.st.repair_steps.n))
                  ELSE c2
        IN  /\ Remember("gen", GenAsksModel, r)
            /\ Commit(s, c3)
    /\ Goto(s, "polish")
    /\ UNCHANGED <<probe, model, imageOk, hint, mode, guides, polished_steps, task, result, exc>>

\* polish_all_steps on either path, with the log lines around it.
Polish(s) ==
    /\ pc[s] = "polish"
    /\ \E r \in Answers("polish", PolishAsksModel(state[s].repair_steps), PolishResponses) :
        LET c1 == IF mode[s] = "streaming"
                  THEN stream_log(ctx(s), Line("Polishing steps for clarity..."))
                  ELSE _log(ctx(s), Line("Polishing steps for clarity and user-friendliness..."))
            polished == polish_all_steps(state[s].repair_steps, r)
        IN  /\ Remember("polish", PolishAsksModel(state[s].repair_steps), r)
            /\ polished_steps' = [polished_steps EXCEPT ![s] = polished]
            /\ Commit(s, say(mode[s], c1, LineN("Successfully polished steps.", polished.n)))
    /\ Goto(s, "await")
    /\ UNCHANGED <<probe, model, imageOk, hint, mode, guides, task, result, exc>>

\* model_url = await trellis_task, then the result is returned or yielded.
Await(s) ==
    /\ pc[s] = "await"
    /\ task[s].st = "done"
    /\ IF task[s].out = "raise" THEN
           /\ Goto(s, "raised")
           /\ exc' = [exc EXCEPT ![s] = "AssetError"]
           /\ UNCHANGED <<result, events, frames>>
       ELSE
           LET res == BuildResult(state[s], polished_steps[s], task[s].out)
           IN  /\ Goto(s, "done")
               /\ result' = [result EXCEPT ![s] = res]
               /\ events' = [events EXCEPT ![s] = Deliver(mode[s], @, res)]
               /\ frames' = [frames EXCEPT ![s] =
                                WriteFrames(@, events[s], Deliver(mode[s], events[s], res))]
               /\ UNCHANGED exc
    /\ UNCHANGED <<probe, model, imageOk, hint, mock, mode, state, guides, polished_steps, task>>

\* The thread running generate_exploded_model_url finishes.
AssetRun(s) ==
    /\ task[s].st = "running"
    /\ \E out \in {generate_exploded_model_url(illus, mesh) :
                        illus \in IllustrationOutcomes, mesh \in MeshOutcomes} :
        task' = [task EXCEPT ![s].st = "done", ![s].out = out]
    /\ UNCHANGED <<probe, model, imageOk, hint, mock, mode, pc, state, guides, polished_steps,
                   result, events, exc, frames>>

\* A plausible slip: closing the generator cancels the asset task it launched.
AbandonCancels(s) ==
    /\ mode[s] = "streaming"
    /\ pc[s] \in {"scene", "launch", "ifixit", "gen", "polish", "await"}
    /\ Goto(s, "abandoned")
    /\ task' = [task EXCEPT ![s].st = IF @ = "running" THEN "cancelled" ELSE @]
    /\ UNCHANGED <<probe, model, imageOk, hint, mock, mode, state, guides, polished_steps,
                   result, events, exc, frames>>

\* The consumer of the stream stops iterating while the generator is suspended at a yield.
Abandon(s) ==
    /\ mode[s] = "streaming"
    /\ pc[s] \in {"scene", "launch", "ifixit", "gen", "polish", "await"}
    /\ Goto(s, "abandoned")
    /\ UNCHANGED <<probe, model, imageOk, hint, mock, mode, state, guides, polished_steps,
                   task, result, events, exc, frames>>

\* analyze_stream cannot read the upload: one error frame, the generator never starts.
UploadFails(s) ==
    /\ mode[s] = "streaming"
    /\ pc[s] = "idle"
    /\ Goto(s, "rejected")
    /\ frames' = [frames EXCEPT ![s] = Append(@, ErrorFrame("Failed to read file"))]
    /\ UNCHANGED <<probe, model, imageOk, hint, mock, mode, state, guides, polished_steps,
                   task, result, events, exc>>

\* generate() in analyze_stream catches what the generator raised and writes an error frame.
StreamError(s) ==
    /\ mode[s] = "streaming"
    /\ pc[s] = "raised"
    /\ \A i \in 1..Len(frames[s]) : frames[s][i].type # "error"
    /\ frames' = [frames EXCEPT ![s] = Append(@, ErrorFrame(exc[s]))]
    /\ UNCHANGED <<probe, model, imageOk, hint, mock, mode, pc, state, guides, polished_steps,
                   task, result, events, exc>>

\* The steps of a call whose consumer, if any, iterates to the end.
Run(s) ==
    \/ Start(s)
    \/ Scene(s)
    \/ Launch(s)
    \/ IfixitEnter(s)
    \/ Search(s)
    \/ GetGuides(s)
    \/ GetGuideDetails(s)
    \/ SelectPath(s)
    \/ Generate(s)
    \/ Polish(s)
    \/ Await(s)
    \/ AssetRun(s)

Terminated(s) == pc[s] \in {"done", "raised", "abandoned"}

\* One call of the orchestrator.
Next == Run(1) \/ StreamError(1) \/ Abandon(1) \/ UploadFails(1)

Spec == Init /\ [][Next]_vars

\* One call whose upload is read, whose collaborators and asset thread all
\* complete and whose consumer, if any, iterates to the end.
NextRun == Run(1) \/ StreamError(1)

SpecRun == Init /\ [][NextRun]_vars /\ WF_vars(NextRun)

\* Two calls on the one shared RepairBrain, given the same image and hint and
\* the same collaborator responses, their steps and asset threads interleaved
\* in every order.
InitConc ==
    /\ InitCommon
    /\ probe = NoProbe
    /\ hint = NoneName
    /\ mode \in {[s \in Sessions |-> IF s = 1 THEN "blocking" ELSE m] : m \in Modes}

NextConc == Run(1) \/ Run(2)

SpecConc == InitConc /\ [][NextConc]_vars

\* The device names the asset pipeline may be given: a string, none or a number.
AssetNames == (SceneTargets \ {Missing}) \cup {Str(<<"Unknown", "Device">>)}

\* generate_exploded_model_url is about to run for one device name, with the
\* outcomes its two stages would have.
InitAsset ==
    /\ InitCommon
    /\ model = TRUE /\ imageOk = TRUE /\ hint = NoneName
    /\ mode = [s \in Sessions |-> "blocking"]
    /\ probe \in {[fn |-> "generate_exploded_model_url", device |-> d, illus |-> i, mesh |-> m,
                    done |-> FALSE, sent |-> "nothing", out |-> "pending"] :
                    d \in AssetNames, i \in IllustrationOutcomes, m \in MeshOutcomes}

\* generate_exploded_model_url(original_image_bytes, device_name)
AssetCall ==
    /\ probe.fn = "generate_exploded_model_url"
    /\ ~probe.done
    /\ probe' = [probe EXCEPT !.done = TRUE,
                              !.sent = MeshInput(probe.illus),
                              !.out = generate_exploded_model_url(probe.illus, probe.mesh)]
    /\ UNCHANGED <<model, imageOk, hint, mock, mode, pc, state, guides, polished_steps,
                   task, result, events, exc, frames>>

SpecAsset == InitAsset /\ [][AssetCall]_vars

\* Raw guide steps of up to MaxLines lines, a line's text_raw being empty or not,
\* with a title, an empty title or none.
LineTexts == {<<>>, <<"Unscrew">>, <<"Lift">>}
RawLines == UNION {[1..n -> LineTexts] : n \in 0..MaxLines}
RawSteps ==
    {[lines |-> l, title |-> t, has_title |-> TRUE] : l \in RawLines, t \in {<<>>, <<"Open case">>}}
    \cup {[lines |-> l, title |-> <<>>, has_title |-> FALSE] : l \in RawLines}

NoStep == [step |-> 0, instruction |-> <<>>, warning |-> NoWarning]

\* The guide detail of one session holds one raw step at some index.
InitMap ==
    /\ InitCommon
    /\ model = TRUE /\ imageOk = TRUE /\ hint = NoneName
    /\ mode = [s \in Sessions |-> "blocking"]
    /\ probe \in {[fn |-> "MapRawStep", idx |-> i, raw |-> r, done |-> FALSE, out |-> NoStep] :
                    i \in 0..(MaxSteps - 1), r \in RawSteps}

\* One turn of the loop over raw_steps in ifixit_check_node.
MapStep ==
    /\ probe.fn = "MapRawStep"
    /\ ~probe.done
    /\ probe' = [probe EXCEPT !.done = TRUE, !.out = MapRawStep(probe.idx, probe.raw)]
    /\ UNCHANGED <<model, imageOk, hint, mock, mode, pc, state, guides, polished_steps,
                   task, result, events, exc, frames>>

SpecMap == InitMap /\ [][MapStep]_vars

\* Step lists of every length up to the ceiling and beyond.
PolishInputs == {MkSteps(n, 0, "original", NoWarning) : n \in 0..(PolishCeiling + MaxOver)}

\* What the model may answer for one list: anything, or a list of that length.
PolishAnswersFor(steps) ==
    PolishResponses \cup {[k |-> "json", v |-> MkSteps(steps.n, 0, "polished", NoWarning)]}

\* polish_all_steps is about to be called with one list and the answer the model would give.
InitPolish ==
    /\ InitCommon
    /\ imageOk = TRUE /\ hint = NoneName
    /\ mode = [s \in Sessions |-> "blocking"]
    /\ probe \in UNION {{[fn |-> "polish_all_steps", steps |-> st, resp |-> r, done |-> FALSE,
                            asked |-> FALSE, out |-> ListV(<<>>)] :
                              r \in PolishAnswersFor(st)} : st \in PolishInputs}

\* await self.polish_all_steps(steps)
PolishCall ==
    /\ probe.fn = "polish_all_steps"
    /\ ~probe.done
    /\ probe' = [probe EXCEPT !.done = TRUE,
                              !.asked = PolishAsksModel(probe.steps),
                              !.out = polish_all_steps(probe.steps, probe.resp)]
    /\ UNCHANGED <<model, imageOk, hint, mock, mode, pc, state, guides, polished_steps,
                   task, result, events, exc, frames>>

SpecPolish == InitPolish /\ [][PolishCall]_vars

\* Two calls with the same image, hint and collaborator responses, the second
\* made when the first is over and its asset thread has ended.
NextPair ==
    \/ Run(1)
    \/ Terminated(1) /\ task[1].st # "running" /\ Run(2)
    \/ StreamError(2)

SpecPair == InitPair /\ [][NextPair]_vars

(* ------------------------------- claims ------------------------------- *)

Returned(s) == pc[s] = "done"

\* C1: process_request never raises for an expected collaborator failure and
\* returns a record with every field present.
C1_NeverRaises ==
    \A s \in Sessions :
        mode[s] = "blocking" =>
            /\ exc[s] = NoExc
            /\ pc[s] # "raised"
            /\ Returned(s) => result[s] # NoResult

\* C2: the steps of every result are non-empty, on both paths and in both modes.
C2_StepsNonEmpty ==
    \A s \in Sessions : Returned(s) => result[s].steps.n > 0

\* C3: the i-th step of every result carries step number i.
C3_StepsNumbered ==
    \A s \in Sessions :
        (Returned(s) /\ result[s].steps.k = "list") =>
            \A i \in 1..Len(result[s].steps.items) : result[s].steps.items[i].step = i

\* C4: when a result is produced, is_verified holds exactly when guides_available
\* is non-empty and the source is the verified one.
C4_VerifiedIff ==
    \A s \in Sessions :
        Returned(s) =>
            (state[s].is_verified <=>
                (state[s].guides_available # <<>> /\ result[s].source = "iFixit"))

\* C4 witness: a result produced after the guide detail request failed with a
\* transport error, the device and the guide list having been fetched.
C4_Witness ==
    \E s \in Sessions :
        /\ Returned(s)
        /\ mock.details = Transport
        /\ ~state[s].is_verified
        /\ result[s].source = "AI_Reasoning"

\* C5: polish_all_steps returns a list of as many steps as its input, or its input.
C5_PolishKeepsCount ==
    \A s \in Sessions :
        pc[s] \in {"await", "done"} =>
            \/ polished_steps[s] = state[s].repair_steps
            \/ /\ polished_steps[s].k = "list"
               /\ polished_steps[s].n = state[s].repair_steps.n

\* C6: two runs in the same mode with the same textual responses both produce a
\* result, with the same steps, source and safety, whatever the asset task does.
C6_AssetNonInterference ==
    (Terminated(1) /\ Terminated(2) /\ mode[1] = mode[2]) =>
        /\ (result[1] = NoResult) <=> (result[2] = NoResult)
        /\ (result[1] # NoResult /\ result[2] # NoResult) =>
              /\ result[1].steps = result[2].steps
              /\ result[1].source = result[2].source
              /\ result[1].safety = result[2].safety

\* C7: the data of the terminal result event of the streaming mode equals, field
\* by field, the record the blocking mode returns for the same responses.
C7_StreamingEqualsBlocking ==
    (/\ Returned(1) /\ Returned(2)
     /\ mode[1] = "blocking" /\ mode[2] = "streaming"
     /\ task[1].out = task[2].out) =>
        events[2][Len(events[2])].res = result[1]

\* C8: in every yielded sequence a result event is the last event, so there is
\* at most one, and a log event precedes it.
C8_ResultEventLast ==
    \A s \in Sessions :
        \A i \in 1..Len(events[s]) :
            events[s][i].type = "result" =>
                /\ i = Len(events[s])
                /\ \E j \in 1..(i - 1) : events[s][j].type = "log"

\* C8 witness: a stream that has yielded its result event.
C8_Witness ==
    \E s \in Sessions :
        /\ mode[s] = "streaming"
        /\ Returned(s)
        /\ Len(events[s]) > 1
        /\ events[s][Len(events[s])].type = "result"

\* The data of the log events of a sequence, in order.
LogData(ev) ==
    LET logs == SelectSeq(ev, LAMBDA e : e.type = "log")
    IN  [i \in 1..Len(logs) |-> logs[i].line]

\* C9: when the result event is emitted, the log events emitted so far carry
\* exactly the lines of result.reasoning_log, in order.
C9_EveryAppendEmitted ==
    \A s \in Sessions :
        (mode[s] = "streaming" /\ Returned(s)) =>
            LogData(events[s]) = result[s].reasoning_log

Logged(s, msg) ==
    \E i \in 1..Len(state[s].reasoning_log) : state[s].reasoning_log[i].msg = msg

\* C10: the asset task is launched once scene analysis has set the target and
\* before the guide lookup starts, with that target, and it is awaited only
\* after polish_all_steps has returned.
C10_LaunchEarlyAwaitLate ==
    \A s \in Sessions :
        /\ task[s].st # "unborn" =>
              /\ pc[s] \notin {"idle", "scene", "launch"}
              /\ task[s].device = state[s].target_device
        /\ pc[s] \in {"ifixit", "search", "guides", "details", "path",
                      "gen", "polish", "await", "done"} => task[s].st # "unborn"
        /\ (mock.search # Unset \/ mock.guides # Unset \/ mock.details # Unset) =>
              task[1].st # "unborn"
        /\ (Returned(s) \/ exc[s] = "AssetError") =>
              /\ Logged(s, "Successfully polished steps.")
              /\ task[s].st = "done"

\* C10 witness: guide lookup, step generation and polishing have all run and the
\* asset task is still incomplete.
C10_Witness ==
    \E s \in Sessions :
        /\ pc[s] = "await"
        /\ task[s].st = "running"
        /\ mock.search # Unset
        /\ mock.gen # Unset
        /\ mock.polish # Unset

\* C11: the asset pipeline never ends by raising: whichever of its stages fails
\* it returns none, and the result then has model_url none with its source,
\* device, steps and safety in place.
C11_AssetNeverRaises ==
    \A s \in Sessions :
        /\ task[s].st = "done" => task[s].out # "raise"
        /\ exc[s] # "AssetError"
        /\ (Returned(s) /\ task[s].out = "None") =>
              /\ result[s].model_url = "None"
              /\ result[s].source \in {"iFixit", "AI_Reasoning"}
              /\ result[s].device = state[s].target_device

\* The name holds the word "Unknown".
HasUnknownWord(t) == t.k = "str" /\ \E i \in 1..Len(t.w) : t.w[i] = "Unknown"

\* C12: with no model configured the target is an Unknown sentinel, the lookup
\* is skipped with is_verified false, and every result, whatever the asset task
\* gave, has the generated source tag, exactly the two canned steps and exactly
\* the two canned safety warnings.
C12_OfflineCannedResult ==
    \A s \in Sessions :
        (~model /\ Logged(s, "AI offline. Defaulting to Unknown Device.")) =>
            /\ HasUnknownWord(state[s].target_device)
            /\ ~state[s].is_verified
            /\ pc[s] \notin {"search", "guides", "details"}
            /\ Returned(s) =>
                  /\ HasUnknownWord(result[s].device)
                  /\ result[s].source = "AI_Reasoning"
                  /\ result[s].steps.k = "list"
                  /\ result[s].steps.items =
                        << [step |-> 1,
                            instruction |-> <<"Remove the 4 visible Phillips screws on the back panel.">>,
                            warning |-> "None"],
                           [step |-> 2,
                            instruction |-> <<"Gently pry the seam using a plastic pick.">>,
                            warning |-> "Clips may break if forced."] >>
                  /\ result[s].safety = <<"Unplug device before opening", "Capacitor discharge risk">>
                  /\ result[s].model_url = task[s].out

\* C12 witness: a result produced with no model configured and a failed asset task.
C12_Witness ==
    \E s \in Sessions :
        /\ ~model
        /\ Returned(s)
        /\ task[s].out = "None"
        /\ result[s].steps.n = 2

\* C13: the instruction of a mapped step is the texts of the raw step's lines
\* joined by single spaces, and it is the raw step's title whenever the title is
\* not empty and every line, however many there are, has empty text.
C13_TitleWhenNoText ==
    (probe.fn = "MapRawStep" /\ probe.done) =>
        LET raw == probe.raw
            NoText == \A i \in 1..Len(raw.lines) : raw.lines[i] = <<>>
        IN  /\ ~NoText => probe.out.instruction = Join(raw.lines)
            /\ (NoText /\ raw.has_title /\ raw.title # <<>>) =>
                  probe.out.instruction = raw.title

\* The polisher answered session s with a list of another length than its input.
PolishRejected(s) ==
    /\ Logged(s, "Successfully polished steps.")
    /\ PolishAsksModel(state[s].repair_steps)
    /\ mock.polish # Unset
    /\ mock.polish.k = "json"
    /\ HasLen(mock.polish.v)
    /\ mock.polish.v.n # state[s].repair_steps.n

\* C14: when the polisher returns a list of another length than its input, the
\* original steps are kept, the result carries them, and the reasoning log
\* holds a warning about the rejected polish.
C14_RejectedPolishLogged ==
    \A s \in Sessions :
        PolishRejected(s) =>
            /\ polished_steps[s] = state[s].repair_steps
            /\ Returned(s) => result[s].steps = state[s].repair_steps
            /\ Logged(s, "Warning: Expected steps, got. Using originals.")

\* C15 as stated: every event the generator yields and every frame the endpoint
\* writes has type log or result, also when a stage or the asset task raises.
C15_OnlyLogOrResult ==
    \A s \in Sessions :
        /\ \A i \in 1..Len(events[s]) : events[s][i].type \in {"log", "result"}
        /\ \A i \in 1..Len(frames[s]) : frames[s][i].type \in {"log", "result"}

\* C15 amended: every event the generator yields has type log or result; the
\* endpoint writes one frame per yielded event, in order, and after them at most
\* one frame of type error, only when the upload could not be read or the
\* generator raised.
C15_FramesLogResultOrError ==
    \A s \in Sessions :
        LET n == Len(events[s])
        IN  /\ \A i \in 1..n : events[s][i].type \in {"log", "result"}
            /\ Len(frames[s]) \in {n, n + 1}
            /\ \A i \in 1..n : frames[s][i] = Frame(events[s][i])
            /\ Len(frames[s]) = n + 1 =>
                  /\ frames[s][n + 1].type = "error"
                  /\ pc[s] \in {"raised", "rejected"}
            /\ (mode[s] = "streaming" /\ pc[s] = "rejected") => Len(frames[s]) = 1

\* C15 witness: a stream whose generator raised after yielding log events and
\* whose endpoint has written the error frame.
C15_Witness ==
    \E s \in Sessions :
        /\ mode[s] = "streaming"
        /\ pc[s] = "raised"
        /\ Len(events[s]) > 1
        /\ Len(frames[s]) = Len(events[s]) + 1
        /\ frames[s][Len(frames[s])].type = "error"

\* C16: a call whose collaborators and asset task complete and whose consumer
\* keeps iterating has, as long as it has not returned its result (streaming:
\* yielded its result event), a next step to take.
C16_ReturnsOrCanStep ==
    \/ /\ Returned(1)
       /\ result[1] # NoResult
       /\ mode[1] = "streaming" => events[1][Len(events[1])].type = "result"
    \/ ENABLED NextRun

\* The number of steps the guide lookup mapped: those of the guide detail it fetched.
MappedSteps ==
    IF mock.details # Unset /\ mock.details.k = "http" /\ mock.details.status = 200
    THEN mock.details.n ELSE 0

\* C17: the source of a result is the verified one exactly when the guide lookup
\* mapped at least one step; otherwise is_verified is false, the generated path
\* is taken and the source is the generated one.
C17_VerifiedIffMappedStep ==
    \A s \in Sessions :
        Returned(s) =>
            /\ result[s].source = "iFixit" <=> MappedSteps > 0
            /\ MappedSteps = 0 =>
                  /\ ~state[s].is_verified
                  /\ Logged(s, "Path B Selected: Generative AI Mode.")
                  /\ result[s].source = "AI_Reasoning"

\* C18: once the locked target holds the word "Unknown", no operation of the
\* guide client is called, is_verified stays false and the session takes the
\* generated path.
C18_UnknownSkipsLookup ==
    \A s \in Sessions :
        HasUnknownWord(state[s].target_device) =>
            /\ pc[s] \notin {"search", "guides", "details"}
            /\ mock.search = Unset /\ mock.guides = Unset /\ mock.details = Unset
            /\ ~Logged(s, "iFixit match found")
            /\ ~state[s].is_verified
            /\ ~Logged(s, "Path A Selected: Using Official Guide.")
            /\ pc[s] \in {"gen", "polish", "await", "done"} =>
                  Logged(s, "Path B Selected: Generative AI Mode.")
            /\ Returned(s) => result[s].source = "AI_Reasoning"

\* C18 witness: a result for a target the model itself named "Unknown Gadget".
C18_Witness ==
    \E s \in Sessions :
        /\ Returned(s)
        /\ model
        /\ state[s].target_device = Str(<<"Unknown", "Gadget">>)
        /\ result[s].source = "AI_Reasoning"

\* The scene response is not a JSON object with a string target_object.
MalformedScene(r) ==
    \/ r.k \in {"badjson", "nonobject"}
    \/ r.k = "object" /\ r.target \in {Missing, NoneName, NumName}

\* C19: a malformed scene response is caught inside analyze_scene_node: the
\* target becomes an Unknown sentinel, the detected-object list is empty and no
\* later stage raises because of it.
C19_MalformedSceneCaught ==
    \A s \in Sessions :
        (pc[s] # "idle" /\ mock.scene # Unset /\ MalformedScene(mock.scene)) =>
            /\ HasUnknownWord(state[s].target_device)
            /\ state[s].detected_objects = <<>>
            /\ exc[s] # "TypeError"

\* The step-generation response is not JSON, or is an object without a steps array.
MalformedGen(r) ==
    \/ r.k = "badjson"
    \/ r.k = "object" /\ r.steps.k # "list"

\* C20: on the generated path a step-generation response of the wrong shape is
\* treated like a missing model: the state gets the two canned steps and the
\* two canned safety warnings.
C20_MalformedGenFallsBack ==
    \A s \in Sessions :
        (/\ pc[s] \in {"polish", "await", "done"}
         /\ ~state[s].is_verified
         /\ mock.gen # Unset
         /\ MalformedGen(mock.gen)) =>
            /\ state[s].repair_steps.k = "list"
            /\ state[s].repair_steps.n = 2
            /\ state[s].repair_steps.items[1].instruction =
                  <<"Remove the 4 visible Phillips screws on the back panel.">>
            /\ state[s].repair_steps.items[2].instruction =
                  <<"Gently pry the seam using a plastic pick.">>
            /\ state[s].safety_warnings = <<"Unplug device before opening", "Capacitor discharge risk">>

\* A transport error or a non-200 status.
NotFoundExchange(r) == r.k = "transport" \/ r.status # 200

\* C21: each guide-client operation answers a non-200 response and a transport
\* error with its not-found value (none, the empty list, the empty record)
\* instead of raising, and ifixit_check_node then ends with is_verified false
\* and the generated path, as for an empty match.
C21_ClientDegrades ==
    /\ (mock.search # Unset /\ NotFoundExchange(mock.search)) =>
          search_device(mock.search) = [k |-> "none"]
    /\ (mock.guides # Unset /\ NotFoundExchange(mock.guides)) =>
          get_guides(mock.guides) = [k |-> "ok", guides |-> <<>>]
    /\ (mock.details # Unset /\ NotFoundExchange(mock.details)) =>
          get_guide_details(mock.details) = [k |-> "ok", steps |-> <<>>]
    /\ \A s \in Sessions :
          (/\ pc[s] \in {"gen", "polish", "await", "done"}
           /\ Transport \in {mock.search, mock.guides, mock.details}) =>
              /\ ~state[s].is_verified
              /\ Logged(s, "Path B Selected: Generative AI Mode.")

\* C22: polish_all_steps returns its input, without asking the model, when no
\* model is configured, when the list is empty and when it has more than 30
\* steps; a list of up to 30 steps, 30 included, is sent to the model.
C22_PolishSkips ==
    (probe.fn = "polish_all_steps" /\ probe.done) =>
        LET n == probe.steps.n
        IN  /\ (~model \/ n = 0 \/ n > 30) => (~probe.asked /\ probe.out = probe.steps)
            /\ (model /\ n \in 1..30) => probe.asked
            /\ (model /\ n = 30 /\ probe.resp.k = "json" /\ probe.resp.v.k = "list"
                      /\ probe.resp.v.n = 30) => probe.out = probe.resp.v

\* C22 witness: a list of exactly 30 steps was sent to the model and came back polished.
C22_Witness ==
    /\ probe.fn = "polish_all_steps"
    /\ probe.done
    /\ model
    /\ probe.steps.n = 30
    /\ probe.asked
    /\ probe.out # probe.steps
    /\ probe.out.n = 30

\* C23 as stated: every step of a result of the verified path, as returned after
\* polishing, has warning none, and the safety list is the one blanket warning.
C23_VerifiedNoStepWarning ==
    \A s \in Sessions :
        (Returned(s) /\ result[s].source = "iFixit") =>
            /\ \A i \in 1..Len(result[s].steps.items) :
                  result[s].steps.items[i].warning = "None"
            /\ result[s].safety = <<"Follow official guide strictly.">>

\* C23 amended: on the verified path the steps as mapped from the guide have
\* warning none and the safety list is the one blanket warning; the steps of
\* the result are those mapped steps or, when the polisher answered with as
\* many elements, the polisher's answer with whatever warnings it wrote.
C23_MappedNoStepWarning ==
    \A s \in Sessions :
        (Returned(s) /\ result[s].source = "iFixit") =>
            /\ state[s].repair_steps.k = "list"
            /\ \A i \in 1..Len(state[s].repair_steps.items) :
                  state[s].repair_steps.items[i].warning = "None"
            /\ result[s].safety = <<"Follow official guide strictly.">>
            /\ \/ result[s].steps = state[s].repair_steps
               \/ /\ mock.polish # Unset
                  /\ result[s].steps = mock.polish.v
                  /\ result[s].steps.n = state[s].repair_steps.n

\* C23 witness: a verified result one of whose steps carries a warning the polisher wrote.
C23_Witness ==
    \E s \in Sessions :
        /\ Returned(s)
        /\ result[s].source = "iFixit"
        /\ state[s].repair_steps.n > 0
        /\ \E i \in 1..Len(result[s].steps.items) : result[s].steps.items[i].warning # "None"

\* The transition of process_request a step of session s completes: the pc it
\* arrives at is the one of Started, TargetLocked, PathDetermined, Polished or
\* Done (the asset join and the return are one step).
CompletesTransition(s) ==
    /\ mode[s] = "blocking"
    /\ pc'[s] # pc[s]
    /\ \/ pc'[s] \in {"scene", "launch", "await", "done"}
       \/ pc[s] = "path" /\ pc'[s] \in {"gen", "polish"}

\* C24: in process_request every transition Started -> TargetLocked ->
\* PathDetermined -> StepsReady -> Polished -> AssetJoined -> Done appends at
\* least one line to the reasoning_log. (The line logged for StepsReady on the
\* generated path is appended together with the path selection.)
C24_EveryTransitionLogs ==
    [][\A s \in Sessions :
          CompletesTransition(s) =>
              Len(state'[s].reasoning_log) > Len(state[s].reasoning_log)]_vars

\* C25: a call produces its result only after its one asset task has completed,
\* with the task's outcome as model_url, and it never finishes, by returning or
\* by raising, while the task it launched is still running.
C25_TaskJoinedBeforeFinish ==
    \A s \in Sessions :
        /\ Returned(s) =>
              /\ task[s].st = "done"
              /\ result[s].model_url = task[s].out
        /\ pc[s] \in {"done", "raised"} => task[s].st # "running"

\* C26: when the consumer of the stream stops iterating before the result
\* event, the orchestrator does not cancel the asset task: the task stays
\* running, able to complete, or is complete, and its outcome is read by no one.
C26_AbandonDoesNotCancel ==
    \A s \in Sessions :
        pc[s] = "abandoned" =>
            /\ task[s].st \in {"unborn", "running", "done"}
            /\ task[s].st = "running" => ENABLED AssetRun(s)
            /\ result[s] = NoResult
            /\ \A i \in 1..Len(events[s]) : events[s][i].type = "log"

\* C26 witness: an abandoned stream whose asset task has run to completion, its
\* outcome in no result.
C26_Witness ==
    \E s \in Sessions :
        /\ pc[s] = "abandoned"
        /\ task[s].st = "done"
        /\ task[s].out = "https://fal/model.glb"
        /\ result[s] = NoResult

IsPrefix(a, b) == Len(a) <= Len(b) /\ SubSeq(b, 1, Len(a)) = a

\* Log lines only process_request writes, and only process_request_streaming writes.
BlockingOnlyLines ==
    {"Polishing steps for clarity and user-friendliness...",
     "Engaging Generative Repair Logic while 3D model renders..."}
StreamingOnlyLines ==
    {"Launching exploded 3D model generation in parallel...",
     "Polishing steps for clarity...",
     "Engaging AI reasoning...",
     "Generating repair steps while 3D exploded model renders..."}

ForeignLines(s) == IF mode[s] = "blocking" THEN StreamingOnlyLines ELSE BlockingOnlyLines

\* C27: two calls interleaved on the shared RepairBrain do not affect each
\* other: each result is made of the call's own state and own asset outcome,
\* calls given the same responses produce the same steps, source, safety and
\* device (and, in the same mode, the same log), and no line of one call is in
\* the other's log.
C27_NoCrossTalk ==
    /\ \A s \in Sessions :
          /\ \A i \in 1..Len(state[s].reasoning_log) :
                /\ state[s].reasoning_log[i].msg \notin ForeignLines(s)
                /\ state[s].reasoning_log[i].msg = "Starting Repair Analysis Session." <=> i = 1
          /\ Returned(s) =>
                /\ result[s].model_url = task[s].out
                /\ result[s].device = state[s].target_device
                /\ result[s].reasoning_log = state[s].reasoning_log
                /\ result[s].steps = polished_steps[s]
    /\ mode[1] = mode[2] =>
          \/ IsPrefix(state[1].reasoning_log, state[2].reasoning_log)
          \/ IsPrefix(state[2].reasoning_log, state[1].reasoning_log)
    /\ (Returned(1) /\ Returned(2)) =>
          /\ result[1].steps = result[2].steps
          /\ result[1].source = result[2].source
          /\ result[1].safety = result[2].safety
          /\ result[1].device = result[2].device
          /\ mode[1] = mode[2] => result[1].reasoning_log = result[2].reasoning_log

\* C27 witness: both calls are under way at once, the blocking one waiting for
\* its asset task and the streaming one about to polish the steps of the same guide.
C27_Witness ==
    /\ mode[1] # mode[2]
    /\ pc[1] = "await" /\ task[1].st = "running"
    /\ pc[2] = "polish" /\ task[2].st = "done"
    /\ state[1].is_verified /\ state[2].is_verified
    /\ state[2].repair_steps.n > 0
    /\ state[1].reasoning_log # state[2].reasoning_log

\* C28: once analyze_scene_node has set the target, no later stage changes it:
\* the target the asset task was given at launch, the target of the guide
\* lookup and the device of the result are that value, and the task's inputs
\* do not change after launch.
C28_TargetImmutable ==
    /\ [](\A s \in Sessions :
            /\ task[s].st # "unborn" => task[s].device = state[s].target_device
            /\ \A i \in 1..Len(state[s].reasoning_log) :
                  state[s].reasoning_log[i].msg = "Searching iFixit for" =>
                      state[s].reasoning_log[i].t = task[s].device
            /\ Returned(s) => result[s].device = task[s].device)
    /\ [][\A s \in Sessions :
            pc[s] \notin {"idle", "scene"} =>
                /\ state'[s].target_device = state[s].target_device
                /\ task[s].st # "unborn" => task'[s].device = task[s].device]_vars

\* C28 witness: a result of the generated path for a target the guide lookup was asked about.
C28_Witness ==
    \E s \in Sessions :
        /\ Returned(s)
        /\ result[s].source = "AI_Reasoning"
        /\ Logged(s, "Searching iFixit for")
        /\ mock.gen # Unset
        /\ result[s].device = Str(<<"Toaster">>)
        /\ task[s].device = Str(<<"Toaster">>)

\* C29: the reasoning_log is append-only: every step leaves it as it was or
\* extends it, its first line is the session-start line, and the reasoning_log
\* of the result is the whole log accumulated up to the return.
C29_LogAppendOnly ==
    /\ [](\A s \in Sessions :
            /\ state[s].reasoning_log # <<>> =>
                  state[s].reasoning_log[1].msg = "Starting Repair Analysis Session."
            /\ Returned(s) => result[s].reasoning_log = state[s].reasoning_log)
    /\ [][\A s \in Sessions :
            IsPrefix(state[s].reasoning_log, state'[s].reasoning_log)]_vars

\* C29 witness: a streamed result whose log holds the lines of every stage of the
\* generated path, from the session start to the polishing.
C29_Witness ==
    \E s \in Sessions :
        /\ mode[s] = "streaming"
        /\ Returned(s)
        /\ Len(result[s].reasoning_log) > 8
        /\ result[s].reasoning_log[1].msg = "Starting Repair Analysis Session."
        /\ result[s].reasoning_log[Len(result[s].reasoning_log)].msg = "Successfully polished steps."

====
